---- MODULE Spec2Model ----
(***************************************************************************)
(* The RAG pipeline of rag_chain.py: ask and the three service adapters    *)
(* translate_text, speech_to_text and text_to_speech, with the external    *)
(* services (HTTP, the passage store, the synthesis client) as             *)
(* nondeterministic outcomes.  The state describes the call in progress of *)
(* one of these functions: its arguments, its locals, the requests it has  *)
(* made so far and what it returned or raised.  _collection outlives a     *)
(* call, and so do the session state of app.py and the passage store.      *)
(***************************************************************************)
EXTENDS Integers, Sequences, FiniteSets, TLC

VARIABLES
    fn,          \* the function being called: "none", "ask", "translate_text", ...
    pc,          \* "idle", "step1".."step4" (inside ask), "returned"
    args,        \* the arguments of the call
    lang_code,   \* local lang_code of ask / speech_to_text / text_to_speech
    query_en,    \* local query_en of ask
    passages,    \* local passages of ask
    answer_en,   \* local answer_en of ask
    results,     \* local results of retrieve_passages: what the store answered
    ret,         \* the value the call returned
    exc,         \* the exception that escaped the call
    caught,      \* the exception an except clause of the call caught
    response,    \* the last response the call received from a service
    calls,       \* the requests made to external services, in order
    collection,  \* the module global _collection
    store,       \* the documents the persistent collection holds
    chat_history,      \* st.session_state.chat_history
    session_language,  \* st.session_state.language
    last_audio_hash,   \* st.session_state.last_audio_hash
    tpc,         \* for each thread running ask: the line it is about to execute
    tlocal,      \* for each thread: its locals client and collection
    clients,     \* the number of store clients the process has created
    handles      \* the clients whose get_collection returned a handle

\* the session state of app.py
session == <<chat_history, session_language, last_audio_hash>>

\* the threads the host runs ask in, and the handles they made
threads == <<tpc, tlocal, clients, handles>>

vars == <<fn, pc, args, lang_code, query_en, passages, answer_en, results, ret,
          exc, caught, response, calls, collection, store, session, threads>>

(***************************************************************************)
(* Bounds of the model.                                                    *)
(***************************************************************************)
\* number of distinct documents the passage store may rank
MaxDocs == 3
\* text lengths within Slack of the synthesis limits are tried
Slack == 1
\* number of turns a session's chat history grows to
MaxTurns == 2
\* number of threads the host runs ask in
MaxThreads == 3

Threads == 1..MaxThreads

(***************************************************************************)
(* Python values.  A str is a sequence of characters or tokens.            *)
(***************************************************************************)
None == [ty |-> "NoneType"]
Str(s) == [ty |-> "str", s |-> s]
Bytes(b) == [ty |-> "bytes", b |-> b]
NoArgs == [none |-> TRUE]

\* str(x) as an f-string formats it
Format(v) == IF v = None THEN <<"None">> ELSE v.s

IsSpace(c) == c \in {" ", "\n", "\t"}

RECURSIVE LStrip(_)
LStrip(s) == IF s # <<>> /\ IsSpace(Head(s)) THEN LStrip(Tail(s)) ELSE s

RECURSIVE RStrip(_)
RStrip(s) ==
    IF s # <<>> /\ IsSpace(s[Len(s)]) THEN RStrip(SubSeq(s, 1, Len(s) - 1)) ELSE s

\* str.strip()
Strip(v) == Str(RStrip(LStrip(v.s)))

(***************************************************************************)
(* Configuration tables.                                                   *)
(***************************************************************************)
\* the table with a wrong code for English
LANGUAGE_CODES_EnUS ==
    [English |-> "en-US", Hindi |-> "hi-IN", Tamil |-> "ta-IN", Telugu |-> "te-IN",
     Kannada |-> "kn-IN", Malayalam |-> "ml-IN", Bengali |-> "bn-IN",
     Marathi |-> "mr-IN", Gujarati |-> "gu-IN", Punjabi |-> "pa-IN"]

\* the table with the codes of Tamil and Telugu swapped
LANGUAGE_CODES_Swapped ==
    [English |-> "en-IN", Hindi |-> "hi-IN", Tamil |-> "te-IN", Telugu |-> "ta-IN",
     Kannada |-> "kn-IN", Malayalam |-> "ml-IN", Bengali |-> "bn-IN",
     Marathi |-> "mr-IN", Gujarati |-> "gu-IN", Punjabi |-> "pa-IN"]

\* lines 25-36: display name -> language code
LANGUAGE_CODES ==
    [English |-> "en-IN", Hindi |-> "hi-IN", Tamil |-> "ta-IN", Telugu |-> "te-IN",
     Kannada |-> "kn-IN", Malayalam |-> "ml-IN", Bengali |-> "bn-IN",
     Marathi |-> "mr-IN", Gujarati |-> "gu-IN", Punjabi |-> "pa-IN"]

\* lines 222-233: display name -> voice
TTS_VOICES ==
    [English |-> "shubh", Hindi |-> "anushka", Tamil |-> "abhilasha",
     Telugu |-> "anushka", Kannada |-> "anushka", Malayalam |-> "anushka",
     Bengali |-> "anushka", Marathi |-> "anushka", Gujarati |-> "anushka",
     Punjabi |-> "anushka"]

\* dict.get(key, default)
DictGet(d, key, default) == IF key \in DOMAIN d THEN d[key] ELSE default

\* the language arguments tried: the ten display names and three other strings
Languages == DOMAIN LANGUAGE_CODES \cup {"Sanskrit", "hindi", ""}

(***************************************************************************)
(* Function outcomes and exceptions.                                       *)
(***************************************************************************)
HTTPError(r) == [type |-> "HTTPError", response |-> r]
Exception(desc) == [type |-> "Exception", str |-> Str(desc)]

Return(v, cs, r) == [raised |-> FALSE, ret |-> v, calls |-> cs, response |-> r]
Raise(e, cs, r) == [raised |-> TRUE, exc |-> e, calls |-> cs, response |-> r]

(***************************************************************************)
(* The HTTP transport (requests).                                          *)
(***************************************************************************)
Statuses == {200, 304, 404, 500}

TransportErrors ==
    {Exception(<<"Connection refused">>), Exception(<<"Read timed out">>)}

\* requests.post: a transport failure, or a response with any status and body
requests_post(bodies) ==
    {[raised |-> TRUE, exc |-> e] : e \in TransportErrors}
    \cup {[raised |-> FALSE,
           response |-> [status_code |-> s, text |-> b.text, json |-> b.json]] :
            s \in Statuses, b \in bodies}

\* Response.raise_for_status(): HTTPError for a 4xx or 5xx status, else nothing
raise_for_status(r) ==
    IF r.status_code >= 400 /\ r.status_code < 600 THEN HTTPError(r) ELSE None

NotJson == [valid |-> FALSE]
Json(v) == [valid |-> TRUE, value |-> v]
JSONDecodeError == Exception(<<"Expecting value: line 1 column 1 (char 0)">>)

(***************************************************************************)
(* Sarvam Translate.                                                       *)
(***************************************************************************)
\* what the Translation Service makes of text: its rendering in target_lang
Translated(text, target_lang) == Str(<<target_lang, ":">> \o text.s)

\* the bodies the Translation Service may answer with
TranslationBodies(text, target_lang) ==
    {[text |-> <<"{translated_text: ">> \o Translated(text, target_lang).s \o <<"}">>,
      json |-> Json([translated_text |-> Translated(text, target_lang)])],
     [text |-> <<"{request_id: 7}">>, json |-> Json([request_id |-> Str(<<"7">>)])],
     [text |-> <<"{translated_text: null}">>, json |-> Json([translated_text |-> None])],
     [text |-> <<"Bad Gateway">>, json |-> NotJson]}

TranslateRequest(text, source_lang, target_lang) ==
    [svc |-> "translate", input |-> text, source_language_code |-> source_lang,
     target_language_code |-> target_lang, model |-> "mayura:v1", mode |-> "formal"]

\* lines 68-70: what translate_text makes of the outcome o of requests.post
TranslateResponse(text, o, cs) ==
    IF o.raised THEN Raise(o.exc, cs, None)
    ELSE IF raise_for_status(o.response) # None
         THEN Raise(raise_for_status(o.response), cs, o.response)
    ELSE IF ~o.response.json.valid THEN Raise(JSONDecodeError, cs, o.response)
    ELSE Return(DictGet(o.response.json.value, "translated_text", text), cs, o.response)

\* the same function without the short-circuit of line 52
translate_text_NoShortCircuit(text, source_lang, target_lang) ==
    {TranslateResponse(text, o, <<TranslateRequest(text, source_lang, target_lang)>>) :
        o \in requests_post(TranslationBodies(text, target_lang))}

\* the outcomes of translate_text(text, source_lang, target_lang)
translate_text(text, source_lang, target_lang) ==
    IF source_lang = target_lang
    THEN {Return(text, <<>>, None)}
    ELSE {TranslateResponse(text, o,
                            <<TranslateRequest(text, source_lang, target_lang)>>) :
            o \in requests_post(TranslationBodies(text, target_lang))}

(***************************************************************************)
(* ChromaDB retrieval.                                                     *)
(***************************************************************************)
DB_PATH == "./ramayana_db"
COLLECTION == "ramayana_passages"
Handle == [ty |-> "Collection", name |-> COLLECTION]

\* get_collection(): the handle is created on first use and kept
get_collection(coll) ==
    IF coll = None
    THEN {[raised |-> FALSE, ret |-> Handle, collection |-> Handle,
           calls |-> <<[svc |-> "store", op |-> "get_collection", path |-> DB_PATH,
                        name |-> COLLECTION]>>],
          [raised |-> TRUE,
           exc |-> Exception(<<"Collection ", COLLECTION, " does not exist.">>),
           collection |-> None,
           calls |-> <<[svc |-> "store", op |-> "get_collection", path |-> DB_PATH,
                        name |-> COLLECTION]>>]}
    ELSE {[raised |-> FALSE, ret |-> coll, collection |-> coll, calls |-> <<>>]}

Document(i) == Str(<<"passage ", ToString(i)>>)
Metadata(i) ==
    [kanda |-> Str(<<"kanda ", ToString(i)>>), topic |-> Str(<<"topic ", ToString(i)>>),
     characters |-> Str(<<"characters ", ToString(i)>>), id |-> Str(<<ToString(i)>>)]

Min(a, b) == IF a < b THEN a ELSE b

\* the collections the process may find on disk: the first k passages of the
\* corpus, for each k up to MaxDocs
Stores == {1..k : k \in 0..MaxDocs}

\* the rankings the store may answer a query for n_results with: n_results
\* distinct documents of the store, best first, or all of them if it holds fewer
Rankings(n_results) ==
    {r \in [1..Min(n_results, Cardinality(store)) -> store] :
        \A i, j \in DOMAIN r : i # j => r[i] # r[j]}

\* collection.query(query_texts=[q_en], n_results=n_results)
collection_query(q_en, n_results) ==
    {[raised |-> TRUE, exc |-> Exception(<<"Error executing query">>)]}
    \cup {[raised |-> FALSE,
           results |-> [documents |-> <<[i \in 1..Len(r) |-> Document(r[i])]>>,
                        metadatas |-> <<[i \in 1..Len(r) |-> Metadata(r[i])]>>]] :
            r \in Rankings(n_results)}

QueryRequest(q_en, n_results) ==
    [svc |-> "store", op |-> "query", query_texts |-> <<q_en>>,
     n_results |-> n_results]

\* lines 84-90: the passage built from the i-th document and its metadata
PassageAt(res, i) ==
    [text |-> res.documents[1][i],
     kanda |-> DictGet(res.metadatas[1][i], "kanda", Str(<<>>)),
     topic |-> DictGet(res.metadatas[1][i], "topic", Str(<<>>)),
     characters |-> DictGet(res.metadatas[1][i], "characters", Str(<<>>))]

\* the passages in the reverse of the store's ranking
PassagesOf_Reversed(res) ==
    [i \in 1..Len(res.documents[1]) |-> PassageAt(res, Len(res.documents[1]) + 1 - i)]

\* lines 82-91: the passages built from the results of the query, in its order
PassagesOf(res) == [i \in 1..Len(res.documents[1]) |-> PassageAt(res, i)]

\* the outcomes of retrieve_passages(q_en, n_results) when _collection is coll
retrieve_passages(q_en, n_results, coll) ==
    UNION {IF g.raised
           THEN {[raised |-> TRUE, exc |-> g.exc, collection |-> g.collection,
                  calls |-> g.calls, results |-> None]}
           ELSE {IF q.raised
                 THEN [raised |-> TRUE, exc |-> q.exc, collection |-> g.collection,
                       results |-> None,
                       calls |-> g.calls \o <<QueryRequest(q_en, n_results)>>]
                 ELSE [raised |-> FALSE, ret |-> PassagesOf(q.results),
                       results |-> q.results,
                       collection |-> g.collection,
                       calls |-> g.calls \o <<QueryRequest(q_en, n_results)>>] :
                    q \in collection_query(q_en, n_results)} :
            g \in get_collection(coll)}

(***************************************************************************)
(* Sarvam-M chat completion.                                               *)
(***************************************************************************)
SYSTEM_PROMPT == "You are Valmiki, the sage-poet and author of the Ramayana. ..."

\* lines 99-104: one labelled part per passage, in order, joined by blank lines
ContextOf(ps) ==
    [i \in 1..Len(ps) |->
        [index |-> i, kanda |-> ps[i].kanda, topic |-> ps[i].topic, text |-> ps[i].text]]

\* lines 115-119: the context block and the question
UserMessage(q_en, ps) == [context |-> ContextOf(ps), question |-> Format(q_en)]

GenerateRequest(q_en, ps) ==
    [svc |-> "generate", model |-> "sarvam-m", system |-> SYSTEM_PROMPT,
     user |-> UserMessage(q_en, ps), max_tokens |-> 512]

\* the completions the Generation Service may write
Contents == {<<" ", "Hanuman is the son of Vayu.", "\n">>, <<"Rama">>}

\* the bodies the Generation Service may answer with
GenerationBodies ==
    {[text |-> <<"{choices: [{message: {content: ">> \o c \o <<"}}]}">>,
      json |-> Json([choices |-> <<[message |-> [content |-> Str(c)]]>>])] :
        c \in Contents}
    \cup {[text |-> <<"{choices: [{message: {content: null}}]}">>,
           json |-> Json([choices |-> <<[message |-> [content |-> None]]>>])],
          [text |-> <<"{choices: []}">>, json |-> Json([choices |-> <<>>])],
          [text |-> <<"{error: overloaded}">>,
           json |-> Json([error |-> Str(<<"overloaded">>)])],
          [text |-> <<"Internal Server Error">>, json |-> NotJson]}

\* line 137: response.json()["choices"][0]["message"]["content"].strip()
ContentOf(value, cs, r) ==
    IF "choices" \notin DOMAIN value THEN Raise(Exception(<<"'choices'">>), cs, r)
    ELSE IF value.choices = <<>>
         THEN Raise(Exception(<<"list index out of range">>), cs, r)
    ELSE IF value.choices[1].message.content = None
         THEN Raise(Exception(<<"'NoneType' object has no attribute 'strip'">>), cs, r)
    ELSE Return(Strip(value.choices[1].message.content), cs, r)

\* lines 135-137: what generate_answer makes of the outcome o of requests.post
GenerateResponse(o, cs) ==
    IF o.raised THEN Raise(o.exc, cs, None)
    ELSE IF raise_for_status(o.response) # None
         THEN Raise(raise_for_status(o.response), cs, o.response)
    ELSE IF ~o.response.json.valid THEN Raise(JSONDecodeError, cs, o.response)
    ELSE ContentOf(o.response.json.value, cs, o.response)

\* the outcomes of generate_answer(query_en, passages)
generate_answer(q_en, ps) ==
    {GenerateResponse(o, <<GenerateRequest(q_en, ps)>>) :
        o \in requests_post(GenerationBodies)}

(***************************************************************************)
(* The main pipeline, ask(query, language).                                *)
(***************************************************************************)
NResults == 3

Queries == {Str(<<"Who is Hanuman?">>), Str(<<"Ravan ne Sita ka apaharan kyon kiya?">>)}

\* a failure result that keeps what the earlier stages produced
AskExcept_Partial(e, language) ==
    [answer |-> answer_en, passages |-> IF results = None THEN <<>> ELSE passages,
     language |-> language,
     error |-> IF e.type = "HTTPError"
               THEN Str(<<"API error: ", ToString(e.response.status_code), " -- ">>
                        \o e.response.text)
               ELSE e.str]

\* lines 176-181: the two except clauses (" -- " stands for the dash of line 177)
AskExcept(e, language) ==
    IF e.type = "HTTPError"
    THEN [answer |-> None, passages |-> <<>>, language |-> language,
          error |-> Str(<<"API error: ", ToString(e.response.status_code), " -- ">>
                        \o e.response.text)]
    ELSE [answer |-> None, passages |-> <<>>, language |-> language, error |-> e.str]

\* lines 168-174: the result of a run in which no stage raised
AskResult(answer, ps, language, q_en) ==
    [answer |-> answer, passages |-> ps, language |-> language, query_en |-> q_en,
     error |-> None]

\* line 158 with the untranslated query
RetrievalQuery_Original == args.query

\* line 158: the query ask hands to retrieve_passages
RetrievalQuery == query_en

\* ask(query, language) is called: lines 149 and 153
AskCall(q, l) ==
    /\ pc = "idle"
    /\ fn' = "ask"
    /\ args' = [query |-> q, language |-> l]
    /\ lang_code' = DictGet(LANGUAGE_CODES, l, "en-IN")
    /\ query_en' = q
    /\ pc' = "step1"
    /\ passages' = None
    /\ answer_en' = None
    /\ results' = None
    /\ ret' = None
    /\ exc' = None
    /\ caught' = None
    /\ response' = None
    /\ calls' = <<>>
    /\ UNCHANGED <<collection, store, session, threads>>

\* a stage raised e: the except clauses build the result and ask returns
AskFail(stage, e) ==
    /\ caught' = [stage |-> stage, exc |-> e]
    /\ ret' = AskExcept(e, args.language)
    /\ pc' = "returned"

\* Step 1, lines 153-155: translate the query to English
AskStep1 ==
    /\ fn = "ask"
    /\ pc = "step1"
    /\ IF lang_code # "en-IN"
       THEN \E o \in translate_text(args.query, lang_code, "en-IN") :
                /\ calls' = calls \o o.calls
                /\ response' = o.response
                /\ IF o.raised
                   THEN AskFail("translate_query", o.exc) /\ UNCHANGED query_en
                   ELSE /\ query_en' = o.ret
                        /\ pc' = "step2"
                        /\ UNCHANGED <<ret, caught>>
       ELSE /\ pc' = "step2"
            /\ UNCHANGED <<query_en, calls, response, ret, caught>>
    /\ UNCHANGED <<fn, args, lang_code, passages, answer_en, results, exc, collection>>
    /\ UNCHANGED <<store, session, threads>>

\* Step 2, line 158: retrieve the passages
AskStep2 ==
    /\ fn = "ask"
    /\ pc = "step2"
    /\ \E o \in retrieve_passages(RetrievalQuery, NResults, collection) :
        /\ calls' = calls \o o.calls
        /\ collection' = o.collection
        /\ results' = o.results
        /\ IF o.raised
           THEN AskFail("retrieve", o.exc) /\ UNCHANGED passages
           ELSE /\ passages' = o.ret
                /\ pc' = "step3"
                /\ UNCHANGED <<ret, caught>>
    /\ UNCHANGED <<fn, args, lang_code, query_en, answer_en, exc, response>>
    /\ UNCHANGED <<store, session, threads>>

\* Step 3, line 161: generate the answer in English
AskStep3 ==
    /\ fn = "ask"
    /\ pc = "step3"
    /\ \E o \in generate_answer(query_en, passages) :
        /\ calls' = calls \o o.calls
        /\ response' = o.response
        /\ IF o.raised
           THEN AskFail("generate", o.exc) /\ UNCHANGED answer_en
           ELSE /\ answer_en' = o.ret
                /\ pc' = "step4"
                /\ UNCHANGED <<ret, caught>>
    /\ UNCHANGED <<fn, args, lang_code, query_en, passages, results, exc, collection>>
    /\ UNCHANGED <<store, session, threads>>

\* Step 4, lines 164-174: translate the answer back and return the result
AskStep4 ==
    /\ fn = "ask"
    /\ pc = "step4"
    /\ IF lang_code # "en-IN"
       THEN \E o \in translate_text(answer_en, "en-IN", lang_code) :
                /\ calls' = calls \o o.calls
                /\ response' = o.response
                /\ IF o.raised
                   THEN AskFail("translate_answer", o.exc)
                   ELSE /\ ret' = AskResult(o.ret, passages, args.language, query_en)
                        /\ pc' = "returned"
                        /\ UNCHANGED caught
       ELSE /\ ret' = AskResult(answer_en, passages, args.language, query_en)
            /\ pc' = "returned"
            /\ UNCHANGED <<calls, response, caught>>
    /\ UNCHANGED <<fn, args, lang_code, query_en, passages, answer_en, results, exc,
                   collection>>
    /\ UNCHANGED <<store, session, threads>>

(***************************************************************************)
(* translate_text called on its own, as app.py does to show an answer in   *)
(* English.                                                                *)
(***************************************************************************)
Codes == {LANGUAGE_CODES[l] : l \in DOMAIN LANGUAGE_CODES}

Texts == {Str(<<"Rama">>), Str(<<"hi-IN", ":", "Rama">>)}

TranslateTextCall(text, source_lang, target_lang) ==
    /\ pc = "idle"
    /\ fn' = "translate_text"
    /\ args' = [text |-> text, source_lang |-> source_lang, target_lang |-> target_lang]
    /\ \E o \in translate_text(text, source_lang, target_lang) :
        /\ calls' = o.calls
        /\ response' = o.response
        /\ ret' = IF o.raised THEN None ELSE o.ret
        /\ exc' = IF o.raised THEN o.exc ELSE None
    /\ pc' = "returned"
    /\ lang_code' = None
    /\ query_en' = None
    /\ passages' = None
    /\ answer_en' = None
    /\ results' = None
    /\ caught' = None
    /\ UNCHANGED <<collection, store, session, threads>>

(***************************************************************************)
(* Speech-to-text (Saarika).                                               *)
(***************************************************************************)
Audios == {Bytes(<<"RIFF", "1">>), Bytes(<<>>)}

\* the bodies the Transcription Service may answer with
TranscriptionBodies ==
    {[text |-> <<"{transcript: Who is Hanuman?, language_code: hi-IN}">>,
      json |-> Json([transcript |-> Str(<<"Who is Hanuman?">>),
                     language_code |-> "hi-IN"])],
     [text |-> <<"{request_id: 7}">>, json |-> Json([request_id |-> Str(<<"7">>)])],
     [text |-> <<"Service Unavailable">>, json |-> NotJson]}

SttRequest(audio_bytes, code) ==
    [svc |-> "stt", file |-> audio_bytes, model |-> "saarika:v2.5",
     language_code |-> code]

\* the except clauses with the second one left out
SttExcept_HTTPOnly(e, code, cs, r) ==
    IF e.type = "HTTPError"
    THEN [raised |-> FALSE,
          ret |-> [transcript |-> Str(<<>>), language_code |-> code,
                   error |-> Str(<<"STT error: ", ToString(e.response.status_code),
                                   " -- ">> \o e.response.text)],
          caught |-> e, calls |-> cs, response |-> r]
    ELSE [raised |-> TRUE, exc |-> e, ret |-> None, caught |-> None, calls |-> cs,
          response |-> r]

\* lines 213-216: the two except clauses of speech_to_text
SttExcept(e, code, cs, r) ==
    [raised |-> FALSE,
     exc |-> None,
     ret |-> [transcript |-> Str(<<>>), language_code |-> code,
              error |-> IF e.type = "HTTPError"
                        THEN Str(<<"STT error: ", ToString(e.response.status_code),
                                   " -- ">> \o e.response.text)
                        ELSE e.str],
     caught |-> e, calls |-> cs, response |-> r]

\* lines 203-211: what speech_to_text makes of the outcome o of requests.post
SttResponse(o, code, cs) ==
    IF o.raised THEN SttExcept(o.exc, code, cs, None)
    ELSE IF raise_for_status(o.response) # None
         THEN SttExcept(raise_for_status(o.response), code, cs, o.response)
    ELSE IF ~o.response.json.valid THEN SttExcept(JSONDecodeError, code, cs, o.response)
    ELSE [raised |-> FALSE,
          exc |-> None,
          ret |-> [transcript |-> DictGet(o.response.json.value, "transcript", Str(<<>>)),
                   language_code |->
                       DictGet(o.response.json.value, "language_code", code),
                   error |-> None],
          caught |-> None, calls |-> cs, response |-> o.response]

\* the outcomes of speech_to_text(audio_bytes, language)
speech_to_text(audio_bytes, language) ==
    {SttResponse(o, DictGet(LANGUAGE_CODES, language, "en-IN"),
                 <<SttRequest(audio_bytes, DictGet(LANGUAGE_CODES, language, "en-IN"))>>) :
        o \in requests_post(TranscriptionBodies)}

SpeechToTextCall(audio_bytes, language) ==
    /\ pc = "idle"
    /\ fn' = "speech_to_text"
    /\ args' = [audio_bytes |-> audio_bytes, language |-> language]
    /\ lang_code' = DictGet(LANGUAGE_CODES, language, "en-IN")
    /\ \E o \in speech_to_text(audio_bytes, language) :
        /\ calls' = o.calls
        /\ response' = o.response
        /\ ret' = o.ret
        /\ exc' = IF o.raised THEN o.exc ELSE None
        /\ caught' = o.caught
    /\ pc' = "returned"
    /\ query_en' = None
    /\ passages' = None
    /\ answer_en' = None
    /\ results' = None
    /\ UNCHANGED <<collection, store, session, threads>>

(***************************************************************************)
(* Text-to-speech (Bulbul).                                                *)
(***************************************************************************)
MaxTtsChars == 2500
KeptChars == 2490
Marker == <<".", ".", ".">>

\* the i-th character of the texts tried
CharAt(i) == IF i % 7 = 0 THEN " " ELSE IF i % 2 = 0 THEN "a" ELSE "b"
TextOfLen(n) == Str([i \in 1..n |-> CharAt(i)])

\* the lengths tried: short texts and those around the two limits
TtsLens ==
    {0, 1} \cup ((KeptChars - Slack)..(KeptChars + Len(Marker) + Slack))
           \cup ((MaxTtsChars - Slack)..(MaxTtsChars + Slack))

\* the truncation with the limit itself cut
Truncate_AtLimit(text) ==
    IF Len(text.s) >= MaxTtsChars
    THEN Str(SubSeq(text.s, 1, KeptChars) \o Marker)
    ELSE text

\* lines 246-247: text over the limit is cut and marked
Truncate(text) ==
    IF Len(text.s) > MaxTtsChars
    THEN Str(SubSeq(text.s, 1, KeptChars) \o Marker)
    ELSE text

TtsRequest(text, code, speaker) ==
    [svc |-> "tts", text |-> text, target_language_code |-> code, model |-> "bulbul:v3",
     speaker |-> speaker]

\* sarvam_client.text_to_speech.convert: an error, or a response with audios
tts_convert ==
    {[raised |-> TRUE, exc |-> Exception(<<"status_code: 429, body: rate limited">>)],
     [raised |-> FALSE, audios |-> <<>>],
     [raised |-> FALSE, audios |-> <<[valid |-> TRUE, data |-> <<"RIFF", "wave">>]>>],
     [raised |-> FALSE, audios |-> <<[valid |-> FALSE]>>]}

\* the except clause re-raising
TtsExcept_Reraise(e, cs, r) ==
    [raised |-> TRUE, exc |-> e, ret |-> None, caught |-> None, calls |-> cs,
     response |-> r]

\* lines 263-264: the except clause of text_to_speech
TtsExcept(e, cs, r) ==
    [raised |-> FALSE, exc |-> None,
     ret |-> [audio_bytes |-> None, error |-> e.str], caught |-> e, calls |-> cs,
     response |-> r]

\* lines 250-261: what text_to_speech makes of the outcome o of convert
TtsResponse(o, cs) ==
    IF o.raised THEN TtsExcept(o.exc, cs, None)
    ELSE IF o.audios = <<>>
         THEN TtsExcept(Exception(<<"list index out of range">>), cs, [audios |-> o.audios])
    ELSE IF ~o.audios[1].valid
         THEN TtsExcept(Exception(<<"Incorrect padding">>), cs, [audios |-> o.audios])
    ELSE [raised |-> FALSE, exc |-> None,
          ret |-> [audio_bytes |-> Bytes(o.audios[1].data), error |-> None],
          caught |-> None, calls |-> cs, response |-> [audios |-> o.audios]]

\* the outcomes of text_to_speech(text, language)
text_to_speech(text, language) ==
    {TtsResponse(o, <<TtsRequest(Truncate(text),
                                 DictGet(LANGUAGE_CODES, language, "en-IN"),
                                 DictGet(TTS_VOICES, language, "shubh"))>>) :
        o \in tts_convert}

TextToSpeechCall(text, language) ==
    /\ pc = "idle"
    /\ fn' = "text_to_speech"
    /\ args' = [text |-> text, language |-> language]
    /\ lang_code' = DictGet(LANGUAGE_CODES, language, "en-IN")
    /\ \E o \in text_to_speech(text, language) :
        /\ calls' = o.calls
        /\ ret' = o.ret
        /\ exc' = IF o.raised THEN o.exc ELSE None
        /\ caught' = o.caught
        /\ response' = o.response
    /\ pc' = "returned"
    /\ query_en' = None
    /\ passages' = None
    /\ answer_en' = None
    /\ results' = None
    /\ UNCHANGED <<collection, store, session, threads>>

\* the caller is done with the result: the script run ends and its locals are gone
Rerun ==
    /\ pc = "returned"
    /\ fn' = "none"
    /\ pc' = "idle"
    /\ args' = NoArgs
    /\ lang_code' = None
    /\ query_en' = None
    /\ passages' = None
    /\ answer_en' = None
    /\ results' = None
    /\ ret' = None
    /\ exc' = None
    /\ caught' = None
    /\ response' = None
    /\ calls' = <<>>
    /\ UNCHANGED <<collection, store, session, threads>>

(***************************************************************************)
(* ask as its caller sees it: every result a call may return, with the     *)
(* value it leaves in _collection.                                         *)
(***************************************************************************)
\* lines 141-181, for _collection = coll when the call starts
ask(query, language, coll) ==
    LET code == DictGet(LANGUAGE_CODES, language, "en-IN")
        Failed(os, c) ==
            {[ret |-> AskExcept(o.exc, language), collection |-> c] :
                o \in {x \in os : x.raised}}
        Values(os) == {o.ret : o \in {x \in os : ~x.raised}}
        Step4(q_en, ps, a, c) ==
            IF code # "en-IN"
            THEN LET os == translate_text(a, "en-IN", code)
                 IN  Failed(os, c)
                     \cup {[ret |-> AskResult(v, ps, language, q_en), collection |-> c] :
                            v \in Values(os)}
            ELSE {[ret |-> AskResult(a, ps, language, q_en), collection |-> c]}
        Step3(q_en, ps, c) ==
            LET os == generate_answer(q_en, ps)
            IN  Failed(os, c) \cup UNION {Step4(q_en, ps, a, c) : a \in Values(os)}
        Step2(q_en) ==
            UNION {IF o.raised
                   THEN {[ret |-> AskExcept(o.exc, language), collection |-> o.collection]}
                   ELSE Step3(q_en, o.ret, o.collection) :
                    o \in retrieve_passages(q_en, NResults, coll)}
    IN  IF code # "en-IN"
        THEN LET os == translate_text(query, code, "en-IN")
             IN  Failed(os, coll) \cup UNION {Step2(q_en) : q_en \in Values(os)}
        ELSE Step2(query)

(***************************************************************************)
(* The session of app.py: the chat history and the handlers of the user's  *)
(* actions.  A handler runs within one run of the script, so it is one     *)
(* step; the frame then shows the handler and the result ask gave it.      *)
(***************************************************************************)
\* the truth value Python gives None and a str
Truthy(v) == v # None /\ v # Str(<<>>)

\* lines 151-157: the display names the selectbox is tried with
SessionLanguages == {"English", "Hindi"}

\* lines 161-170: the first of the sample questions
sample_questions == {Str(<<"Who is Hanuman?">>)}

\* the texts typed into the form
UserQueries == {Str(<<" ", "Why was Rama exiled?", " ">>), Str(<<" ", " ">>)}

\* the recordings the microphone hands over
Recordings == {Bytes(<<"RIFF", "1">>), Bytes(<<"RIFF", "2">>), Bytes(<<>>)}

\* line 253: hashlib.md5(audio_bytes).hexdigest(), collisions left out
Md5(audio_bytes) == Str(<<"md5">> \o audio_bytes.b)

\* lines 268-273, 287-292, 317-322: the turn appended for a result of ask
ChatTurn(shown, result) ==
    [query |-> shown, answer |-> result.answer, passages |-> result.passages,
     language |-> result.language]

SelectLanguage(l) ==
    /\ pc = "idle"
    /\ l # session_language
    /\ session_language' = l
    /\ UNCHANGED <<fn, pc, args, lang_code, query_en, passages, answer_en, results, ret,
                   exc, caught, response, calls, collection, store, chat_history,
                   last_audio_hash, threads>>

\* lines 176-178
ClearChat ==
    /\ pc = "idle"
    /\ chat_history' = <<>>
    /\ UNCHANGED <<fn, pc, args, lang_code, query_en, passages, answer_en, results, ret,
                   exc, caught, response, calls, collection, store, session_language,
                   last_audio_hash, threads>>

\* the frame a handler leaves: its name, the query it asked and ask's result
Handled(name, q, result) ==
    /\ fn' = name
    /\ args' = [query |-> q, language |-> session_language]
    /\ ret' = result
    /\ pc' = "returned"
    /\ lang_code' = None
    /\ query_en' = None
    /\ passages' = None
    /\ answer_en' = None
    /\ results' = None
    /\ exc' = None
    /\ caught' = None
    /\ response' = None
    /\ calls' = <<>>
    /\ UNCHANGED <<store, session_language, threads>>

\* a handler asks q and appends the turn, shown as `shown', unless error is set
AskAndAppend(name, q, shown) ==
    \E o \in ask(q, session_language, collection) :
        /\ Handled(name, q, o.ret)
        /\ collection' = o.collection
        /\ chat_history' = IF Truthy(o.ret.error)
                           THEN chat_history
                           ELSE Append(chat_history, ChatTurn(shown, o.ret))

\* a handler that does not get to ask
NotAsked(name) ==
    /\ Handled(name, None, None)
    /\ UNCHANGED <<collection, chat_history>>

\* lines 251-275: a new recording is transcribed and the transcript asked
VoiceQuestion(audio_bytes) ==
    /\ pc = "idle"
    /\ Len(chat_history) < MaxTurns
    /\ audio_bytes.b # <<>>
    /\ Md5(audio_bytes) # last_audio_hash
    /\ last_audio_hash' = Md5(audio_bytes)
    /\ \E stt_result \in {o.ret : o \in speech_to_text(audio_bytes, session_language)} :
        IF ~Truthy(stt_result.error) /\ Truthy(stt_result.transcript)
        THEN AskAndAppend("voice_question", stt_result.transcript,
                          Str(<<"(mic) ">> \o stt_result.transcript.s))
        ELSE NotAsked("voice_question")

\* lines 172-173 and 280-293: a sample question is clicked and asked
SampleQuestion(sample_q) ==
    /\ pc = "idle"
    /\ Len(chat_history) < MaxTurns
    /\ AskAndAppend("sample_question", sample_q, sample_q)
    /\ UNCHANGED last_audio_hash

\* lines 307-323: the form is submitted with user_query
TypedQuestion(user_query) ==
    /\ pc = "idle"
    /\ Len(chat_history) < MaxTurns
    /\ IF Strip(user_query).s # <<>>
       THEN AskAndAppend("typed_question", Strip(user_query), Strip(user_query))
       ELSE NotAsked("typed_question")
    /\ UNCHANGED last_audio_hash

Init ==
    /\ fn = "none"
    /\ pc = "idle"
    /\ args = NoArgs
    /\ lang_code = None
    /\ query_en = None
    /\ passages = None
    /\ answer_en = None
    /\ results = None
    /\ ret = None
    /\ exc = None
    /\ caught = None
    /\ response = None
    /\ calls = <<>>
    /\ collection = None
    /\ store \in Stores
    /\ chat_history = <<>>
    /\ session_language = "English"
    /\ last_audio_hash = None
    /\ tpc = [t \in Threads |-> "idle"]
    /\ tlocal = [t \in Threads |-> [client |-> None, collection |-> None]]
    /\ clients = 0
    /\ handles = {}

Next ==
    \/ \E q \in Queries, l \in Languages : AskCall(q, l)
    \/ AskStep1
    \/ AskStep2
    \/ AskStep3
    \/ AskStep4
    \/ \E t \in Texts, s \in Codes, d \in Codes : TranslateTextCall(t, s, d)
    \/ \E a \in Audios, l \in Languages : SpeechToTextCall(a, l)
    \/ \E n \in TtsLens, l \in Languages : TextToSpeechCall(TextOfLen(n), l)
    \/ Rerun

Spec == Init /\ [][Next]_vars

\* one session of app.py: the user's actions, each followed by the end of the run
NextSession ==
    \/ \E l \in SessionLanguages : SelectLanguage(l)
    \/ ClearChat
    \/ \E a \in Recordings : VoiceQuestion(a)
    \/ \E q \in sample_questions : SampleQuestion(q)
    \/ \E u \in UserQueries : TypedQuestion(u)
    \/ Rerun

SpecSession == Init /\ [][NextSession]_vars

(***************************************************************************)
(* get_collection under threads.  The host runs the script of each session *)
(* in a thread of its own, all in one process, so several calls of ask may *)
(* be inside get_collection at once.  A thread may be suspended between    *)
(* any two lines; a step is a line of get_collection or retrieve_passages. *)
(* tpc[t] is the line thread t executes next.                              *)
(***************************************************************************)
\* the handle the k-th client of the process gets for the collection
ClientHandle(k) == [ty |-> "Collection", name |-> COLLECTION, client |-> k]

frame == <<fn, pc, args, lang_code, query_en, passages, answer_en, results, ret, exc,
           caught, response, calls>>

\* thread t calls ask and reaches line 76: collection = get_collection()
Invoke(t) ==
    /\ tpc[t] = "idle"
    /\ tpc' = [tpc EXCEPT ![t] = "43"]
    /\ UNCHANGED <<frame, collection, store, session, tlocal, clients, handles>>

\* line 43: if _collection is None
Line43(t) ==
    /\ tpc[t] = "43"
    /\ tpc' = [tpc EXCEPT ![t] = IF collection = None THEN "44" ELSE "46"]
    /\ UNCHANGED <<frame, collection, store, session, tlocal, clients, handles>>

\* line 44: client = chromadb.PersistentClient(path=DB_PATH)
Line44(t) ==
    /\ tpc[t] = "44"
    /\ clients' = clients + 1
    /\ tlocal' = [tlocal EXCEPT ![t].client = clients + 1]
    /\ tpc' = [tpc EXCEPT ![t] = "45"]
    /\ UNCHANGED <<frame, collection, store, session, handles>>

\* line 45, the call client.get_collection(COLLECTION): it gives a handle, or
\* raises while no collection has been found on disk yet
Line45Call(t) ==
    /\ tpc[t] = "45"
    /\ \/ /\ handles' = handles \cup {tlocal[t].client}
          /\ tpc' = [tpc EXCEPT ![t] = "45="]
       \/ /\ handles = {}
          /\ tpc' = [tpc EXCEPT ![t] = "raised"]
          /\ UNCHANGED handles
    /\ UNCHANGED <<frame, collection, store, session, tlocal, clients>>

\* line 45, the assignment _collection = ...
Line45Store(t) ==
    /\ tpc[t] = "45="
    /\ collection' = ClientHandle(tlocal[t].client)
    /\ tpc' = [tpc EXCEPT ![t] = "46"]
    /\ UNCHANGED <<frame, store, session, tlocal, clients, handles>>

\* line 46 and line 76: return _collection, bound to the local collection
Line46(t) ==
    /\ tpc[t] = "46"
    /\ tlocal' = [tlocal EXCEPT ![t].collection = collection]
    /\ tpc' = [tpc EXCEPT ![t] = "77"]
    /\ UNCHANGED <<frame, collection, store, session, clients, handles>>

\* lines 77-80: the query, which reads the store
Line77(t) ==
    /\ tpc[t] = "77"
    /\ \E q \in Queries :
        \E o \in collection_query(q, NResults) :
            tpc' = [tpc EXCEPT ![t] = IF o.raised THEN "raised" ELSE "82"]
    /\ UNCHANGED <<frame, collection, store, session, tlocal, clients, handles>>

NextThreads ==
    \E t \in Threads :
        \/ Invoke(t)
        \/ Line43(t)
        \/ Line44(t)
        \/ Line45Call(t)
        \/ Line45Store(t)
        \/ Line46(t)
        \/ Line77(t)

\* up to MaxThreads calls of ask, interleaved in any way
SpecThreads == Init /\ [][NextThreads]_vars

(***************************************************************************)
(* Properties of ask.                                                      *)
(***************************************************************************)
AskReturned == fn = "ask" /\ pc = "returned"

IsPrefix(a, b) == Len(a) <= Len(b) /\ SubSeq(b, 1, Len(a)) = a

IsInfix(a, b) == \E i \in 0..(Len(b) - Len(a)) : SubSeq(b, i + 1, i + Len(a)) = a

\* the service (or store operation) each request of the call went to, in order
Labels == [i \in 1..Len(calls) |-> IF calls[i].svc = "store" THEN calls[i].op
                                   ELSE calls[i].svc]

TranslateCalls == {i \in 1..Len(calls) : calls[i].svc = "translate"}
GenerateCalls == {i \in 1..Len(calls) : calls[i].svc = "generate"}

\* C1: the dict ask returns has exactly one of 'answer' and 'error' non-null,
\* whatever the query, the language and the outcomes of the services.
C1_ExactlyOneOfAnswerAndError ==
    AskReturned => ((ret.answer # None) # (ret.error # None))

\* C2: whenever a stage of ask fails (translation of the query, retrieval,
\* generation or back-translation), ask returns answer = None and passages = []
\* with error set, also when retrieval and generation had already succeeded.
C2_NoPartialResult ==
    AskReturned /\ caught # None =>
        /\ ret.answer = None
        /\ ret.passages = <<>>
        /\ ret.error # None

\* a back-translation that failed after retrieval found passages and generation
\* wrote an answer
C2_Witness ==
    /\ AskReturned
    /\ caught # None
    /\ caught.stage = "translate_answer"
    /\ results # None
    /\ passages # <<>>
    /\ answer_en # None

\* the requests of a complete run, in order; withGet says whether the store
\* handle had to be created
FullOrder(withGet) ==
    (IF lang_code # "en-IN" THEN <<"translate">> ELSE <<>>)
    \o (IF withGet THEN <<"get_collection">> ELSE <<>>)
    \o <<"query", "generate">>
    \o (IF lang_code # "en-IN" THEN <<"translate">> ELSE <<>>)

\* the requests that a run failing in the given stage ends with
LastOfStage(stage) ==
    CASE stage = "translate_query" -> {"translate"}
      [] stage = "retrieve" -> {"get_collection", "query"}
      [] stage = "generate" -> {"generate"}
      [] stage = "translate_answer" -> {"translate"}

\* C3: within one call of ask the stages are invoked in the order
\* query-translation, retrieval, generation, back-translation, each at most
\* once, each only after the earlier ones succeeded, none after the first
\* failure; retrieval and generation receive the English query that the
\* translation stage returned.
C3_StagesInOrder ==
    fn = "ask" =>
        /\ \E g \in BOOLEAN : IsPrefix(Labels, FullOrder(g))
        /\ pc = "step1" => calls = <<>>
        /\ pc = "step2" => Labels = (IF lang_code # "en-IN" THEN <<"translate">> ELSE <<>>)
        /\ pc = "step3" => Labels[Len(calls)] = "query"
        /\ pc = "step4" => Labels[Len(calls)] = "generate"
        /\ (pc = "returned" /\ caught = None) => \E g \in BOOLEAN : Labels = FullOrder(g)
        /\ caught # None =>
            /\ pc = "returned"
            /\ calls # <<>>
            /\ Labels[Len(calls)] \in LastOfStage(caught.stage)
            /\ caught.stage = "translate_query" => Len(calls) = 1
            /\ caught.stage = "translate_answer" => Len(calls) >= 3
        /\ (lang_code # "en-IN" /\ pc = "step2") =>
            /\ calls[1].input = args.query
            /\ calls[1].source_language_code = lang_code
            /\ calls[1].target_language_code = "en-IN"
            /\ query_en = DictGet(response.json.value, "translated_text", args.query)
        /\ \A i \in 1..Len(calls) :
            /\ Labels[i] = "query" => calls[i].query_texts = <<query_en>>
            /\ Labels[i] = "generate" => calls[i].user.question = Format(query_en)

\* a complete run for Hindi whose query the service translated
C3_Witness ==
    /\ AskReturned
    /\ caught = None
    /\ args.language = "Hindi"
    /\ Len(calls) = 5
    /\ query_en = Translated(args.query, "en-IN")
    /\ calls[3].query_texts = <<query_en>>

\* C4: with language "English" ask makes no request to the Translation
\* Service, and on success query_en is the original query and answer is the
\* generated answer.
C4_EnglishNeverTranslates ==
    (fn = "ask" /\ args.language = "English") =>
        /\ TranslateCalls = {}
        /\ (pc = "returned" /\ ret.error = None) =>
            /\ ret.query_en = args.query
            /\ ret.answer = answer_en
            /\ ret.answer = Strip(response.json.value.choices[1].message.content)

\* a successful English run
C4_Witness ==
    /\ AskReturned
    /\ args.language = "English"
    /\ ret.error = None
    /\ ret.answer = Str(<<"Hanuman is the son of Vayu.">>)

\* C5: translate_text with source_lang = target_lang returns the text
\* unchanged and makes no request; a request is made only when they differ.
C5_SameLanguageShortCircuit ==
    (fn = "translate_text" /\ pc = "returned") =>
        /\ args.source_lang = args.target_lang =>
            /\ ret = args.text
            /\ exc = None
            /\ calls = <<>>
        /\ calls # <<>> => args.source_lang # args.target_lang
        /\ args.source_lang # args.target_lang => Len(calls) = 1

\* a call with equal codes other than English's
C5_Witness ==
    /\ fn = "translate_text"
    /\ pc = "returned"
    /\ args.source_lang = "hi-IN"
    /\ args.target_lang = "hi-IN"
    /\ ret = args.text

(***************************************************************************)
(* Properties of the adapters.                                             *)
(***************************************************************************)
Adapters == {"translate_text", "speech_to_text", "text_to_speech"}

\* the HTTP service of the call failed: no response, a 4xx or 5xx status, or a
\* body that is not JSON
HttpFailed ==
    \/ response = None
    \/ response.status_code \in 400..599
    \/ ~response.json.valid

\* the Synthesis Service failed: an error, no audio, or audio that does not decode
TtsFailed ==
    \/ response = None
    \/ response.audios = <<>>
    \/ ~response.audios[1].valid

\* the service of the adapter call failed
ServiceFailed ==
    IF fn = "text_to_speech" THEN TtsFailed ELSE calls # <<>> /\ HttpFailed

C7_TruncatesLongText ==
    (fn = "text_to_speech" /\ pc = "returned") =>
        /\ Len(calls) = 1
        /\ Len(calls[1].text.s) <= 2500
        /\ Len(args.text.s) <= 2500 => calls[1].text = args.text
        /\ Len(args.text.s) > 2500 =>
            /\ Len(calls[1].text.s) = 2493
            /\ \A i \in 1..2490 : calls[1].text.s[i] = args.text.s[i]
            /\ \A i \in 2491..2493 : calls[1].text.s[i] = "."

\* a text one character over the limit
C7_Witness ==
    /\ fn = "text_to_speech"
    /\ pc = "returned"
    /\ Len(args.text.s) = 2501
    /\ Len(calls[1].text.s) = 2493

\* C8: when a service called by ask answers with a non-success HTTP status,
\* the error of the result contains that status code and the response body.
C8_StatusAndBodyInError ==
    (AskReturned /\ response # None /\ response.status_code \notin 200..299) =>
        /\ ret.error # None
        /\ IsInfix(<<ToString(response.status_code)>>, ret.error.s)
        /\ IsInfix(response.text, ret.error.s)

\* the code each display name is documented to have
DocumentedCode(language) ==
    CASE language = "English" -> "en-IN"
      [] language = "Hindi" -> "hi-IN"
      [] language = "Tamil" -> "ta-IN"
      [] language = "Telugu" -> "te-IN"
      [] language = "Kannada" -> "kn-IN"
      [] language = "Malayalam" -> "ml-IN"
      [] language = "Bengali" -> "bn-IN"
      [] language = "Marathi" -> "mr-IN"
      [] language = "Gujarati" -> "gu-IN"
      [] language = "Punjabi" -> "pa-IN"
      [] OTHER -> "en-IN"

Supported ==
    {"English", "Hindi", "Tamil", "Telugu", "Kannada", "Malayalam", "Bengali",
     "Marathi", "Gujarati", "Punjabi"}

\* C9: ask, speech_to_text and text_to_speech resolve each of the ten display
\* names to its documented code and any other string to "en-IN"; for such a
\* string ask proceeds as for English (no translation, no failure of its own)
\* and the result's language is still the caller's string.
C9_LanguageResolution ==
    /\ fn \in {"ask", "speech_to_text", "text_to_speech"} =>
        lang_code = DocumentedCode(args.language)
    /\ (fn = "speech_to_text" /\ pc = "returned") =>
        calls[1].language_code = DocumentedCode(args.language)
    /\ (fn = "text_to_speech" /\ pc = "returned") =>
        calls[1].target_language_code = DocumentedCode(args.language)
    /\ fn = "ask" =>
        /\ \A i \in TranslateCalls :
            DocumentedCode(args.language) \in {calls[i].source_language_code,
                                               calls[i].target_language_code}
        /\ pc = "returned" => ret.language = args.language
        /\ args.language \notin Supported =>
            /\ TranslateCalls = {}
            /\ caught # None => caught.stage \in {"retrieve", "generate"}
            /\ (pc = "returned" /\ caught = None) =>
                /\ ret.error = None
                /\ ret.query_en = args.query
                /\ ret.answer = answer_en

\* a successful run for a language that is not in the table
C9_Witness ==
    /\ AskReturned
    /\ args.language = "Sanskrit"
    /\ ret.error = None
    /\ ret.language = "Sanskrit"

Asked == pc = "returned" /\ fn \in {"voice_question", "sample_question", "typed_question"}

\* C11: every turn in the chat history has a non-null answer,
\* in every state a session's typed, sample and voice questions and clear
\* chat lead to.
C11_EveryTurnHasAnswer ==
    \A i \in DOMAIN chat_history : chat_history[i].answer # None

\* C11, the part about how the history changes: a step either leaves the chat
\* history as it is, empties it, or appends one turn and keeps the others in
\* place; a handler appends exactly when ask gave it a result with no error.
C11_AppendOrClear ==
    [][/\ \/ chat_history' = chat_history
          \/ chat_history' = <<>>
          \/ /\ Len(chat_history') = Len(chat_history) + 1
             /\ SubSeq(chat_history', 1, Len(chat_history)) = chat_history
       /\ Asked' /\ ~Asked =>
            (Len(chat_history') = Len(chat_history) + 1
                <=> ret' # None /\ ret'.error = None)
       /\ ~(Asked' /\ ~Asked) => Len(chat_history') <= Len(chat_history)]_vars

\* a second turn has been appended behind a first
C11_Witness == Asked /\ Len(chat_history) = 2 /\ ret # None /\ ret.error = None

(***************************************************************************)
(* Properties of the connection to the passage store.                      *)
(***************************************************************************)
\* C12: the connection to the passage store is established at most once in
\* the process, and all calls of get_collection, also those of threads that
\* run at the same time, return the same handle.
C12_EstablishedOnce ==
    /\ Cardinality(handles) <= 1
    /\ \A t, u \in Threads :
        tlocal[t].collection # None /\ tlocal[u].collection # None
            => tlocal[t].collection = tlocal[u].collection

\* C12, for calls that run one after the other: once _collection is set no
\* step changes it or asks the store for a handle again, a failed
\* get_collection leaves it unset, and no step changes the store.
C12_SequentialReuse ==
    [][/\ collection # None => collection' = collection
       /\ store' = store
       /\ \A i \in DOMAIN calls' :
            i > Len(calls) /\ calls'[i].svc = "store" /\ calls'[i].op = "get_collection"
                => collection = None
       /\ pc = "step2" /\ AskReturned' /\ caught'.exc.type = "Exception"
            /\ caught'.exc.str = Str(<<"Collection ", COLLECTION, " does not exist.">>)
            => collection' = None /\ ret'.error # None]_vars

\* a second ask has got the handle the first one made, without asking again
C12_Witness ==
    /\ fn = "ask"
    /\ pc = "step3"
    /\ collection = Handle
    /\ \A i \in DOMAIN calls : ~(calls[i].svc = "store" /\ calls[i].op = "get_collection")


====
